---- MODULE Spec2Model ----
(***************************************************************************)
(* Model of data_collector.py: the decoding of capacitor part numbers      *)
(* (MPNs) of three manufacturers into records, and the pipeline that       *)
(* collects the records of a list of text sources.                         *)
(*                                                                         *)
(* Texts, MPNs and table keys are strings; positions are 1-based here and  *)
(* 0-based in the source, so match[k] of the source is match[k+1] here.    *)
(***************************************************************************)
EXTENDS Integers, Sequences, FiniteSets, TLC

(***************************************************************************)
(* Bounds of the model.                                                    *)
(***************************************************************************)
\* number of data sources of one run
MaxSources == 2

(***************************************************************************)
(* decimal.Decimal.  A value is sign, integer part and the digits after    *)
(* the decimal point without trailing zeros, so that equality of two       *)
(* representations is Python's numeric equality of Decimals.  Every        *)
(* operation of the source on Decimals is exact within the default         *)
(* precision of 28 digits except the construction from a float, which      *)
(* yields the exact value of the binary double.                            *)
(***************************************************************************)
Digits == {"0", "1", "2", "3", "4", "5", "6", "7", "8", "9"}

DigitVal(ch) ==
    CASE ch = "0" -> 0 [] ch = "1" -> 1 [] ch = "2" -> 2 [] ch = "3" -> 3
      [] ch = "4" -> 4 [] ch = "5" -> 5 [] ch = "6" -> 6 [] ch = "7" -> 7
      [] ch = "8" -> 8 [] ch = "9" -> 9

CharAt(s, i) == SubSeq(s, i, i)

RECURSIVE StripZeros(_)
StripZeros(fp) ==
    IF fp # <<>> /\ fp[Len(fp)] = 0
    THEN StripZeros(SubSeq(fp, 1, Len(fp) - 1))
    ELSE fp

\* Decimal(n) for an int n
DecimalFromInt(n) ==
    [neg |-> n < 0, ip |-> IF n < 0 THEN -n ELSE n, fp |-> <<>>]

\* the strings Decimal(str) accepts among those the patterns capture
IsNumeric(s) == Len(s) > 0 /\ \A i \in 1..Len(s) : CharAt(s, i) \in Digits

RECURSIVE StrToNat(_)
StrToNat(s) ==
    IF Len(s) = 0 THEN 0
    ELSE 10 * StrToNat(SubSeq(s, 1, Len(s) - 1)) + DigitVal(CharAt(s, Len(s)))

\* Decimal(s) for a string of digits
DecimalFromStr(s) == DecimalFromInt(StrToNat(s))

\* d * Decimal(10)**e: the decimal point moves e places (to the left for
\* a negative e)
RECURSIVE DecimalScale(_, _)
DecimalScale(d, e) ==
    IF e = 0
    THEN [d EXCEPT !.fp = StripZeros(d.fp)]
    ELSE IF e < 0
    THEN DecimalScale([neg |-> d.neg, ip |-> d.ip \div 10,
                       fp |-> <<d.ip % 10>> \o d.fp], e + 1)
    ELSE DecimalScale([neg |-> d.neg,
                       ip |-> 10 * d.ip + (IF d.fp = <<>> THEN 0 ELSE d.fp[1]),
                       fp |-> IF d.fp = <<>> THEN <<>> ELSE Tail(d.fp)], e - 1)

\* d / Decimal(10^k), as in Decimal(63)/10 and Decimal(230)/100
DecimalDiv10(d, k) == DecimalScale(d, -k)

DecimalNeg(d) == [d EXCEPT !.neg = ~d.neg]

(***************************************************************************)
(* Decimal(x) for a float literal x = num/den: the literal denotes the     *)
(* IEEE-754 double nearest to num/den (53 significant bits, ties to even)  *)
(* and Decimal(float) converts that double exactly.                        *)
(***************************************************************************)
MantissaBits == 53

RECURSIVE BitLength(_)
BitLength(n) == IF n = 0 THEN 0 ELSE 1 + BitLength(n \div 2)

\* 2^n mod m, by repeated squaring
RECURSIVE PowMod2(_, _)
PowMod2(n, m) ==
    IF n = 0 THEN 1 % m
    ELSE IF n % 2 = 1 THEN (2 * PowMod2(n - 1, m)) % m
    ELSE (PowMod2(n \div 2, m) * PowMod2(n \div 2, m)) % m

\* what is left of r/den below the first i bits after the binary point,
\* as a numerator over den
RemainderAfter(r, den, i) == (PowMod2(i, den) * r) % den

\* bit i of r/den after the binary point, for r < den
FractionBit(r, den, i) ==
    IF 2 * RemainderAfter(r, den, i - 1) >= den THEN 1 ELSE 0

\* the number of bits after the binary point a double keeps of ip + r/den
FractionLength(ip, r, den) ==
    IF ip > 0 THEN MantissaBits - BitLength(ip)
    ELSE IF r = 0 THEN 0
    ELSE LET first == CHOOSE i \in 1..den :
                          /\ FractionBit(r, den, i) = 1
                          /\ \A j \in 1..(i - 1) : FractionBit(r, den, j) = 0
         IN  first + MantissaBits - 1

\* bits + 1 in the last place; carry is the carry out of the first bit
BitsIncrement(bits) ==
    IF \A i \in 1..Len(bits) : bits[i] = 1
    THEN [bits |-> [i \in 1..Len(bits) |-> 0], carry |-> 1]
    ELSE LET z == CHOOSE i \in 1..Len(bits) :
                      bits[i] = 0 /\ \A j \in (i + 1)..Len(bits) : bits[j] = 1
         IN  [bits |-> [i \in 1..Len(bits) |->
                          IF i < z THEN bits[i] ELSE IF i = z THEN 1 ELSE 0],
              carry |-> 0]

\* The binary fraction 0.bits is turned into decimal digits four bits and
\* four digits at a time: 1/16 = 0.0625 = 625/10000.
\* the k-th group of four bits as a number; bits past the end are 0
Nibble(bits, k) ==
    LET b(i) == IF i <= Len(bits) THEN bits[i] ELSE 0
    IN  8 * b(4 * k - 3) + 4 * b(4 * k - 2) + 2 * b(4 * k - 1) + b(4 * k)

\* (c + 0.limbs) / 16 in groups of four decimal digits
RECURSIVE DivideLimbs(_, _)
DivideLimbs(c, limbs) ==
    IF limbs = <<>> THEN (IF c = 0 THEN <<>> ELSE <<c * 625>>)
    ELSE LET cur == 10000 * c + limbs[1]
         IN  <<cur \div 16>> \o DivideLimbs(cur % 16, Tail(limbs))

\* the value of the groups k..n of bits
RECURSIVE NibblesToLimbs(_, _, _)
NibblesToLimbs(bits, k, n) ==
    IF k > n THEN <<>>
    ELSE DivideLimbs(Nibble(bits, k), NibblesToLimbs(bits, k + 1, n))

LimbDigit(limb, p) ==
    CASE p = 0 -> limb \div 1000
      [] p = 1 -> (limb \div 100) % 10
      [] p = 2 -> (limb \div 10) % 10
      [] p = 3 -> limb % 10

\* the decimal digits of the binary fraction 0.bits
BitsToDigits(bits) ==
    LET limbs == NibblesToLimbs(bits, 1, (Len(bits) + 3) \div 4)
    IN  [i \in 1..(4 * Len(limbs)) |->
            LimbDigit(limbs[(i + 3) \div 4], (i - 1) % 4)]

DecimalFromFloat(num, den) ==
    LET ip   == num \div den
        r    == num % den
        n    == FractionLength(ip, r, den)
        bits == [i \in 1..n |-> FractionBit(r, den, i)]
        rem  == RemainderAfter(r, den, n)
        last == IF n = 0 THEN ip % 2 ELSE bits[n]
        up   == 2 * rem > den \/ (2 * rem = den /\ last = 1)
        inc  == IF up THEN BitsIncrement(bits)
                      ELSE [bits |-> bits, carry |-> 0]
    IN  [neg |-> FALSE, ip |-> ip + inc.carry,
         fp |-> StripZeros(BitsToDigits(inc.bits))]

(***************************************************************************)
(* Capacitor size codes, metric to inch, in the order of the dict literal. *)
(***************************************************************************)
size_m_to_i_items == <<
    <<"0402", "01005">>, <<"0404", "015015">>, <<"0603", "0201">>,
    <<"0505", "0202">>, <<"0805", "0302">>, <<"0808", "0303">>,
    <<"1310", "0504">>, <<"1005", "0402">>, <<"1608", "0603">>,
    <<"2012", "0805">>, <<"2520", "1008">>, <<"2828", "1111">>,
    <<"3216", "1206">>, <<"3225", "1210">>, <<"3625", "1410">>,
    <<"3838", "1515">>, <<"4516", "1806">>, <<"4520", "1808">>,
    <<"4532", "1812">>, <<"4564", "1825">>, <<"5025", "2010">>,
    <<"5050", "2020">>, <<"5750", "2220">>, <<"5764", "2225">>,
    <<"6432", "2512">>, <<"6450", "2520">>, <<"7450", "2920">>,
    <<"7563", "3025">>, <<"8484", "3333">>, <<"9210", "4040">>,
    <<"100100", "4040">>, <<"140127", "5550">>, <<"203153", "8060">> >>

\* the keys of a dict literal, in insertion order
DictKeys(items) == [i \in 1..Len(items) |-> items[i][1]]

Last(S) == CHOOSE i \in S : \A j \in S : j <= i

\* a dict literal: a later item replaces an earlier one with the same key
DictOf(items) ==
    [k \in {items[i][1] : i \in 1..Len(items)} |->
        items[Last({i \in 1..Len(items) : items[i][1] = k})][2]]

size_m_to_i == DictOf(size_m_to_i_items)

\* for key in dict: inverse[dict[key]] = key
\* (keys are visited in insertion order; a later assignment overwrites)
Invert(keys, dict) ==
    [v \in {dict[keys[i]] : i \in 1..Len(keys)} |->
        keys[Last({i \in 1..Len(keys) : dict[keys[i]] = v})]]

size_i_to_m == Invert(DictKeys(size_m_to_i_items), size_m_to_i)

(***************************************************************************)
(* Results of the operations that can raise: a returned value, or the      *)
(* exception raised together with the lines printed before it.             *)
(***************************************************************************)
Return(v) == [ok |-> TRUE, val |-> v, err |-> "", out |-> <<>>]

Raise(e, printed) == [ok |-> FALSE, val |-> <<>>, err |-> e, out |-> printed]

CharsOf(s) == {CharAt(s, i) : i \in 1..Len(s)}

(***************************************************************************)
(* class TempChar                                                          *)
(***************************************************************************)
min_temps ==
    [X |-> DecimalFromInt(-55), Y |-> DecimalFromInt(-30),
     Z |-> DecimalFromInt(10)]

max_temps ==
    ("4" :> DecimalFromInt(65)) @@ ("5" :> DecimalFromInt(85)) @@
    ("6" :> DecimalFromInt(105)) @@ ("7" :> DecimalFromInt(125)) @@
    ("8" :> DecimalFromInt(150)) @@ ("9" :> DecimalFromInt(200))

TempChar_tols ==
    [P |-> <<DecimalFromInt(-10), DecimalFromInt(10)>>,
     R |-> <<DecimalFromInt(-15), DecimalFromInt(15)>>,
     S |-> <<DecimalFromInt(-22), DecimalFromInt(22)>>,
     T |-> <<DecimalFromInt(-33), DecimalFromInt(22)>>,
     U |-> <<DecimalFromInt(-56), DecimalFromInt(22)>>,
     V |-> <<DecimalFromInt(-82), DecimalFromInt(22)>>]

\* [Decimal(-0.54), Decimal(0.54)]
Class1Tol == <<DecimalNeg(DecimalFromFloat(54, 100)), DecimalFromFloat(54, 100)>>

\* TempChar.__init__ with a table lookup that falls back to a default band
\* and a default high bound instead of failing
TempCharDefaulting(code) ==
    IF code = "C0G" \/ code = "NP0"
    THEN Return([code |-> code,
                 tol |-> Class1Tol,
                 ceramic_class |-> "1",
                 temp |-> <<DecimalFromInt(-55), DecimalFromInt(125)>>])
    ELSE IF CharAt(code, 1) \notin DOMAIN min_temps THEN Raise("KeyError", <<>>)
    ELSE Return([code |-> code,
                 tol |-> IF CharAt(code, 3) \in DOMAIN TempChar_tols
                         THEN TempChar_tols[CharAt(code, 3)]
                         ELSE TempChar_tols["R"],
                 ceramic_class |-> "2",
                 temp |-> <<min_temps[CharAt(code, 1)],
                            IF CharAt(code, 2) \in DOMAIN max_temps
                            THEN max_temps[CharAt(code, 2)]
                            ELSE max_temps["7"]>>])

TempChar(code) ==
    IF code = "C0G" \/ code = "NP0"
    THEN Return([code |-> code,
                 tol |-> Class1Tol,
                 ceramic_class |-> "1",
                 temp |-> <<DecimalFromInt(-55), DecimalFromInt(125)>>])
    ELSE IF CharAt(code, 1) \notin DOMAIN min_temps THEN Raise("KeyError", <<>>)
    ELSE IF CharAt(code, 2) \notin DOMAIN max_temps THEN Raise("KeyError", <<>>)
    ELSE IF CharAt(code, 3) \notin DOMAIN TempChar_tols
    THEN Raise("KeyError", <<>>)
    ELSE Return([code |-> code,
                 tol |-> TempChar_tols[CharAt(code, 3)],
                 ceramic_class |-> "2",
                 temp |-> <<min_temps[CharAt(code, 1)],
                            max_temps[CharAt(code, 2)]>>])

(***************************************************************************)
(* Regular expressions.  A pattern is a sequence of capture groups; a      *)
(* group is an alternation of literals, tried in the order written, or a   *)
(* sequence of character classes.  Match is re's backtracking match at one *)
(* position, findall the list of the capture tuples of the leftmost        *)
(* non-overlapping matches.                                                *)
(***************************************************************************)
Alt(alts) == [t |-> "alt", alts |-> alts, sets |-> <<>>]

Cls(sets) == [t |-> "cls", alts |-> <<>>, sets |-> sets]

NoMatch == [ok |-> FALSE, caps |-> <<>>, end |-> 0]

IsPrefixAt(lit, text, pos) ==
    /\ pos + Len(lit) - 1 <= Len(text)
    /\ SubSeq(text, pos, pos + Len(lit) - 1) = lit

First(S) == CHOOSE i \in S : \A j \in S : i <= j

RECURSIVE Match(_, _, _, _)
Match(pat, gi, text, pos) ==
    IF gi > Len(pat) THEN [ok |-> TRUE, caps |-> <<>>, end |-> pos]
    ELSE IF pat[gi].t = "cls"
    THEN LET n == Len(pat[gi].sets)
         IN  IF /\ pos + n - 1 <= Len(text)
                /\ \A k \in 1..n : CharAt(text, pos + k - 1) \in pat[gi].sets[k]
             THEN LET r == Match(pat, gi + 1, text, pos + n)
                  IN  IF r.ok
                      THEN [r EXCEPT
                              !.caps = <<SubSeq(text, pos, pos + n - 1)>> \o @]
                      ELSE NoMatch
             ELSE NoMatch
    ELSE \* the first alternative with which the rest of the pattern matches
         LET rest == [ai \in 1..Len(pat[gi].alts) |->
                        IF IsPrefixAt(pat[gi].alts[ai], text, pos)
                        THEN Match(pat, gi + 1, text,
                                   pos + Len(pat[gi].alts[ai]))
                        ELSE NoMatch]
             fit == {ai \in 1..Len(pat[gi].alts) : rest[ai].ok}
         IN  IF fit = {} THEN NoMatch
             ELSE [rest[First(fit)] EXCEPT
                     !.caps = <<pat[gi].alts[First(fit)]>> \o @]

\* the matches from pos on: the leftmost one, then those after its end
RECURSIVE FindallFrom(_, _, _)
FindallFrom(pat, text, pos) ==
    LET starts == {p \in pos..Len(text) : Match(pat, 1, text, p).ok}
    IN  IF starts = {} THEN <<>>
        ELSE LET r == Match(pat, 1, text, First(starts))
             IN  <<r.caps>> \o
                 FindallFrom(pat, text,
                             IF r.end > First(starts) THEN r.end
                             ELSE First(starts) + 1)

findall(pat, text) == FindallFrom(pat, text, 1)

\* reduce(lambda x, y: x + y, match)
RECURSIVE reduce_concat(_)
reduce_concat(match) ==
    IF Len(match) = 1 THEN match[1]
    ELSE reduce_concat(SubSeq(match, 1, Len(match) - 1)) \o match[Len(match)]

(***************************************************************************)
(* class TdkParser                                                         *)
(***************************************************************************)
TdkParser_regex == <<
    Alt(<<"CGA">>),
    Cls(<<CharsOf("23456789D")>>),
    Cls(<<CharsOf("BCEFHJKLMNP")>>),
    Cls(<<CharsOf("1234")>>),
    Alt(<<"C0G", "X7R", "X7S", "X7T", "X8R">>),
    Alt(<<"0J", "1A", "1C", "1E", "1V", "1H", "2A", "2E", "2W", "2J",
          "3A", "3D", "3F">>),
    Cls(<<Digits, Digits>>),
    Cls(<<Digits>>),
    Alt(<<"J", "K", "M">>),
    Cls(<<Digits, Digits, Digits>>),
    Alt(<<"A", "B", "K", "L">>),
    Alt(<<"E">>) >>

\* the size table with the entry of "D" taken from another inch code
TdkSizesShifted ==
    ("2" :> size_i_to_m["0402"]) @@ ("3" :> size_i_to_m["0603"]) @@
    ("4" :> size_i_to_m["0805"]) @@ ("5" :> size_i_to_m["1206"]) @@
    ("6" :> size_i_to_m["1210"]) @@ ("7" :> size_i_to_m["1808"]) @@
    ("8" :> size_i_to_m["1812"]) @@ ("9" :> size_i_to_m["2220"]) @@
    ("D" :> size_i_to_m["1410"])

TdkSizes ==
    ("2" :> size_i_to_m["0402"]) @@ ("3" :> size_i_to_m["0603"]) @@
    ("4" :> size_i_to_m["0805"]) @@ ("5" :> size_i_to_m["1206"]) @@
    ("6" :> size_i_to_m["1210"]) @@ ("7" :> size_i_to_m["1808"]) @@
    ("8" :> size_i_to_m["1812"]) @@ ("9" :> size_i_to_m["2220"]) @@
    ("D" :> size_i_to_m["3025"])

TdkThicknesses ==
    [B |-> DecimalDiv10(DecimalFromInt(50), 2),
     C |-> DecimalDiv10(DecimalFromInt(60), 2),
     E |-> DecimalDiv10(DecimalFromInt(80), 2),
     F |-> DecimalDiv10(DecimalFromInt(85), 2),
     H |-> DecimalDiv10(DecimalFromInt(115), 2),
     J |-> DecimalDiv10(DecimalFromInt(125), 2),
     K |-> DecimalDiv10(DecimalFromInt(130), 2),
     L |-> DecimalDiv10(DecimalFromInt(160), 2),
     M |-> DecimalDiv10(DecimalFromInt(200), 2),
     N |-> DecimalDiv10(DecimalFromInt(230), 2),
     P |-> DecimalDiv10(DecimalFromInt(250), 2)]

TdkVoltages ==
    ("0J" :> DecimalFromFloat(63, 10)) @@ ("1A" :> DecimalFromFloat(10, 1)) @@
    ("1C" :> DecimalFromFloat(16, 1)) @@ ("1E" :> DecimalFromFloat(25, 1)) @@
    ("1V" :> DecimalFromFloat(35, 1)) @@ ("1H" :> DecimalFromFloat(50, 1)) @@
    ("2A" :> DecimalFromFloat(100, 1)) @@ ("2E" :> DecimalFromFloat(250, 1)) @@
    ("2W" :> DecimalFromFloat(450, 1)) @@ ("2J" :> DecimalFromFloat(630, 1)) @@
    ("3A" :> DecimalFromFloat(1000, 1)) @@
    ("3D" :> DecimalFromFloat(2000, 1)) @@
    ("3F" :> DecimalFromFloat(3000, 1))

TdkTols ==
    [J |-> <<DecimalFromInt(-5), DecimalFromInt(5)>>,
     K |-> <<DecimalFromInt(-10), DecimalFromInt(10)>>,
     M |-> <<DecimalFromInt(-20), DecimalFromInt(20)>>]

\* the comparison of the two thicknesses left out
TdkThicknessUnchecked(thickness, thickness_2) == FALSE

\* if (c.thickness != thickness_2)
TdkThicknessMismatch(thickness, thickness_2) == thickness # thickness_2

\* e = Decimal(match[7]) - Decimal(12)
TdkExponent(digit) == StrToNat(digit) - 12

TdkParser_parse_match(match) ==
    IF match[2] \notin DOMAIN TdkSizes THEN Raise("KeyError", <<>>)
    ELSE IF match[3] \notin DOMAIN TdkThicknesses THEN Raise("KeyError", <<>>)
    ELSE LET thickness == TdkThicknesses[match[3]]
             thickness_2 == DecimalDiv10(DecimalFromStr(match[10]), 2)
         IN
    IF TdkThicknessMismatch(thickness, thickness_2)
    THEN Raise("ValueError", << <<"str", match[3]>>, <<"Decimal", thickness>>,
                                <<"Decimal", thickness_2>> >>)
    ELSE LET temp == TempChar(match[5]) IN
    IF ~temp.ok THEN temp
    ELSE IF match[6] \notin DOMAIN TdkVoltages THEN Raise("KeyError", <<>>)
    ELSE IF ~IsNumeric(match[7]) \/ ~IsNumeric(match[8])
    THEN Raise("InvalidOperation", <<>>)
    ELSE IF match[9] \notin DOMAIN TdkTols THEN Raise("KeyError", <<>>)
    ELSE IF match[12] # "E" THEN Raise("ValueError", <<>>)
    ELSE Return([m |-> "TDK",
                 mpn |-> reduce_concat(match),
                 series |-> match[1],
                 size |-> TdkSizes[match[2]],
                 thickness |-> thickness,
                 temp |-> temp.val,
                 voltage |-> TdkVoltages[match[6]],
                 capVal |-> DecimalScale(DecimalFromStr(match[7]),
                                         TdkExponent(match[8])),
                 tol |-> TdkTols[match[9]],
                 flexterm |-> "Soft termination"])

(***************************************************************************)
(* class SamsungParser                                                     *)
(***************************************************************************)
SamsungParser_regex == <<
    Alt(<<"CL">>),
    Alt(<<"03", "05", "10", "21", "31", "32", "43", "55">>),
    Cls(<<CharsOf("ABCFLPRSTUXY")>>),
    Cls(<<Digits, Digits \cup {"R"}>>),
    Cls(<<Digits>>),
    Cls(<<CharsOf("ABCDFGJKMZ")>>),
    Cls(<<CharsOf("ABCDEGHIJKLOPQR")>>),
    Cls(<<CharsOf("3568ACFHIJLQVYU")>>),
    Cls(<<CharsOf("ANGZSY")>>),
    Cls(<<CharsOf("ABCFLNPW4N")>>),
    Cls(<<CharsOf("N6JW")>>),
    Cls(<<CharsOf("BCDEFLOPSG")>>) >>

SamsungSizes ==
    ("03" :> size_i_to_m["0201"]) @@ ("05" :> size_i_to_m["0402"]) @@
    ("10" :> size_i_to_m["0603"]) @@ ("21" :> size_i_to_m["0805"]) @@
    ("31" :> size_i_to_m["1206"]) @@ ("32" :> size_i_to_m["1210"]) @@
    ("43" :> size_i_to_m["1812"]) @@ ("55" :> size_i_to_m["2220"])

SamsungCharacteristics ==
    [C |-> "C0G", P |-> "P2H", R |-> "R2H", S |-> "S2H", T |-> "T2H",
     U |-> "U2J", L |-> "S2L", A |-> "X5R", B |-> "X7R", Y |-> "X7S",
     X |-> "X6S", F |-> "Y5V"]

SamsungTols ==
    [F |-> <<DecimalFromInt(-1), DecimalFromInt(1)>>,
     G |-> <<DecimalFromInt(-2), DecimalFromInt(2)>>,
     J |-> <<DecimalFromInt(-5), DecimalFromInt(5)>>,
     K |-> <<DecimalFromInt(-10), DecimalFromInt(10)>>,
     M |-> <<DecimalFromInt(-20), DecimalFromInt(20)>>,
     Z |-> <<DecimalFromInt(-20), DecimalFromInt(80)>>]

SamsungVoltages ==
    [R |-> DecimalFromFloat(4, 1),
     Q |-> DecimalDiv10(DecimalFromInt(63), 1),
     P |-> DecimalFromFloat(10, 1),
     O |-> DecimalFromFloat(16, 1),
     A |-> DecimalFromFloat(25, 1),
     L |-> DecimalFromFloat(35, 1),
     B |-> DecimalFromFloat(50, 1),
     C |-> DecimalFromFloat(100, 1),
     D |-> DecimalFromFloat(200, 1),
     E |-> DecimalFromFloat(250, 1),
     G |-> DecimalFromFloat(500, 1),
     H |-> DecimalFromFloat(630, 1),
     I |-> DecimalFromFloat(1000, 1),
     J |-> DecimalFromFloat(2000, 1),
     K |-> DecimalFromFloat(3000, 1)]

SamsungThicknesses ==
    ("3" :> DecimalDiv10(DecimalFromInt(30), 2)) @@
    ("5" :> DecimalDiv10(DecimalFromInt(50), 2)) @@
    ("6" :> DecimalDiv10(DecimalFromInt(60), 2)) @@
    ("8" :> DecimalDiv10(DecimalFromInt(80), 2)) @@
    ("A" :> DecimalDiv10(DecimalFromInt(65), 2)) @@
    ("C" :> DecimalDiv10(DecimalFromInt(85), 2)) @@
    ("F" :> DecimalDiv10(DecimalFromInt(125), 2)) @@
    ("Q" :> DecimalDiv10(DecimalFromInt(125), 2)) @@
    ("Y" :> DecimalDiv10(DecimalFromInt(125), 2)) @@
    ("H" :> DecimalDiv10(DecimalFromInt(160), 2)) @@
    ("U" :> DecimalDiv10(DecimalFromInt(180), 2)) @@
    ("I" :> DecimalDiv10(DecimalFromInt(200), 2)) @@
    ("J" :> DecimalDiv10(DecimalFromInt(250), 2)) @@
    ("V" :> DecimalDiv10(DecimalFromInt(250), 2)) @@
    ("L" :> DecimalDiv10(DecimalFromInt(320), 2))

\* e = Decimal(match[4]) - Decimal(12)
SamsungExponent(digit) == StrToNat(digit) - 12

\* the optional attribute flexterm
SamsungFlexterm(code) ==
    IF code = "Z" \/ code = "S" THEN [flexterm |-> "Soft termination"]
    ELSE IF code = "Y" THEN [flexterm |-> "Cu/Ag-Epoxy"]
    ELSE <<>>

SamsungParser_parse_match(match) ==
    IF match[2] \notin DOMAIN SamsungSizes THEN Raise("KeyError", <<>>)
    ELSE IF match[3] \notin DOMAIN SamsungCharacteristics
    THEN Raise("KeyError", <<>>)
    ELSE LET temp == TempChar(SamsungCharacteristics[match[3]]) IN
    IF ~temp.ok THEN temp
    ELSE IF ~IsNumeric(match[5]) \/ ~IsNumeric(match[4])
    THEN Raise("InvalidOperation", <<>>)
    ELSE IF match[6] \notin DOMAIN SamsungTols THEN Raise("KeyError", <<>>)
    ELSE IF match[7] \notin DOMAIN SamsungVoltages THEN Raise("KeyError", <<>>)
    ELSE IF match[8] \notin DOMAIN SamsungThicknesses
    THEN Raise("KeyError", <<>>)
    ELSE Return([m |-> "Samsung",
                 mpn |-> reduce_concat(match),
                 series |-> match[1],
                 size |-> SamsungSizes[match[2]],
                 temp |-> temp.val,
                 capVal |-> DecimalScale(DecimalFromStr(match[4]),
                                         SamsungExponent(match[5])),
                 tol |-> SamsungTols[match[6]],
                 voltage |-> SamsungVoltages[match[7]],
                 thickness |-> SamsungThicknesses[match[8]]]
                @@ SamsungFlexterm(match[9]))

(***************************************************************************)
(* class KemetParser                                                       *)
(***************************************************************************)
KemetParser_regex == <<
    Alt(<<"C">>),
    Cls(<<Digits, Digits, Digits, Digits>>),
    Cls(<<CharsOf("CXFJSYTVW")>>),
    Cls(<<Digits, Digits \cup {"R"}>>),
    Cls(<<Digits>>),
    Cls(<<CharsOf("BCDFGJKMZ")>>),
    Cls(<<CharsOf("798436512ACBDFGZH")>>),
    Cls(<<CharsOf("GHJNPRUV")>>),
    Cls(<<CharsOf("ABC12")>>),
    Cls(<<CharsOf("CL")>>),
    Alt(<<"TU", "7411", "7210", "TM", "7040", "7013", "7025", "7215", "7081",
          "7082", "7186", "7289", "7800", "7805", "7810", "7867", "9028",
          "9239", "3325", "AUTO", "AUTO7411", "AUTO7210", "AUTO7289", "">>) >>

\* the series label and the optional attributes flexterm and design that
\* the if/elif chain over match[2] sets
KemetSeries(series, failure) ==
    IF series = "C" THEN [series |-> "Standard"]
    ELSE IF series = "X"
    THEN [series |-> "Flexible termination",
          flexterm |-> "Flexible termination"]
    ELSE IF series = "F" THEN [series |-> "Open mode"]
    ELSE IF series = "J"
    THEN [series |-> "Open mode", flexterm |-> "Flexible termination"]
    ELSE IF series = "S" THEN [series |-> "Floating electrode"]
    ELSE IF series = "Y"
    THEN [series |-> "Floating electrode with flexible termination",
          flexterm |-> "Flexible termination"]
    ELSE IF series = "V" THEN [series |-> "ArcShield"]
    ELSE IF series = "W"
    THEN [series |-> "ArcShield with flexible termination",
          flexterm |-> "Flexible termination"]
    ELSE IF series = "T"
    THEN [series |-> "COTS"] @@
         (IF failure = "A" THEN [design |-> "MIL-PRF-55681 PDA 8 %"]
          ELSE IF failure = "B"
          THEN [design |-> "MIL-PRF-556851 PDA 8 %, DPA EIA-469"]
          ELSE IF failure = "C"
          THEN [design |->
                  "MIL-PRF-55681 PDA 8 %, DPA EIA-469, MIL-STD-202 103 A"]
          ELSE <<>>)
    ELSE [series |-> series]

\* the failure-rate step without the hasattr guard
KemetDesignUnguarded(c, failure) ==
    IF failure = "A" THEN c
    ELSE IF failure = "1"
    THEN [design |-> "KPS Single chip stack"] @@ c
    ELSE IF failure = "2"
    THEN [design |-> "KPS Double chip stack"] @@ c
    ELSE c

\* Parameter: Failure rate / design, applied to the attributes set so far
KemetDesign(c, failure) ==
    IF "design" \in DOMAIN c
    THEN IF failure = "A" THEN c
         ELSE IF failure = "1"
         THEN [design |-> "KPS Single chip stack"] @@ c
         ELSE IF failure = "2"
         THEN [design |-> "KPS Double chip stack"] @@ c
         ELSE c
    ELSE c

\* every digit taken through digit - 12
KemetExponentPlain(digit) == StrToNat(digit) - 12

\* Parameter: Nominal capacitance, the exponent
KemetExponent(digit) ==
    IF digit = "9" THEN -13
    ELSE IF digit = "8" THEN -14
    ELSE StrToNat(digit) - 12

KemetTols ==
    [F |-> <<DecimalFromInt(-1), DecimalFromInt(1)>>,
     G |-> <<DecimalFromInt(-2), DecimalFromInt(2)>>,
     J |-> <<DecimalFromInt(-5), DecimalFromInt(5)>>,
     K |-> <<DecimalFromInt(-10), DecimalFromInt(10)>>,
     M |-> <<DecimalFromInt(-20), DecimalFromInt(20)>>,
     Z |-> <<DecimalFromInt(-20), DecimalFromInt(80)>>]

KemetVoltages ==
    ("7" :> DecimalFromInt(4)) @@
    ("9" :> DecimalDiv10(DecimalFromInt(63), 1)) @@
    ("8" :> DecimalFromInt(10)) @@ ("4" :> DecimalFromInt(16)) @@
    ("3" :> DecimalFromInt(25)) @@ ("6" :> DecimalFromInt(35)) @@
    ("5" :> DecimalFromInt(50)) @@ ("1" :> DecimalFromInt(100)) @@
    ("2" :> DecimalFromInt(200)) @@ ("A" :> DecimalFromInt(250)) @@
    ("C" :> DecimalFromInt(500)) @@ ("B" :> DecimalFromInt(630)) @@
    ("D" :> DecimalFromInt(1000)) @@ ("F" :> DecimalFromInt(1500)) @@
    ("G" :> DecimalFromInt(2000)) @@ ("Z" :> DecimalFromInt(2500)) @@
    ("H" :> DecimalFromInt(3000))

KemetTemps ==
    [G |-> "C0G", H |-> "X8R", J |-> "U2J", N |-> "X8L", P |-> "X5R",
     R |-> "X7R", U |-> "Z5U", V |-> "Y5V"]

KemetTerms == [C |-> "Sn 100 %", L |-> "SnPb (Pb > 5 %)"]

KemetPackagings ==
    ("" :> "bulk bag") @@
    ("TU" :> "7\" reel, unmarked") @@
    ("7411" :> "13\" reel, unmarked") @@
    ("7210" :> "13\" reel, unmarked") @@
    ("7867" :> "13\" reel, unmarked") @@
    ("TM" :> "7\" reel, marked") @@
    ("7013" :> "7\" reel, marked") @@
    ("7025" :> "7\" reel, marked") @@
    ("7040" :> "13\" reel, marked") @@
    ("7215" :> "13\" reel, marked") @@
    ("7081" :> "7\" reel, unmarked, 2 mm pitch") @@
    ("7082" :> "13\" reel, unmarked, 2 mm pitch") @@
    ("7800" :> "7\" reel, unmarked") @@
    ("7805" :> "7\" reel, unmarked") @@
    ("7810" :> "13\" reel, unmarked") @@
    ("9028" :> "special bulk casette, unmarked") @@
    ("3325" :> "special bulk casette, marked") @@
    ("7186" :> "7\" reel, unmarked") @@
    ("7289" :> "13\" reel, unmarked") @@
    ("AUTO" :> "7\" reel, plastic, auto grade") @@
    ("AUTO7289" :> "13\" reel, plastic, auto grade") @@
    ("AUTO7411" :> "13\" reel, paper, auto grade") @@
    ("AUTO7210" :> "13\" reel, plastic, auto grade")

KemetParser_parse_match(match) ==
    IF match[2] \notin DOMAIN size_i_to_m THEN Raise("KeyError", <<>>)
    ELSE IF ~IsNumeric(match[5]) \/ ~IsNumeric(match[4])
    THEN Raise("InvalidOperation", <<>>)
    ELSE IF match[6] \notin DOMAIN KemetTols THEN Raise("KeyError", <<>>)
    ELSE IF match[7] \notin DOMAIN KemetVoltages THEN Raise("KeyError", <<>>)
    ELSE IF match[8] \notin DOMAIN KemetTemps THEN Raise("KeyError", <<>>)
    ELSE LET temp == TempChar(KemetTemps[match[8]]) IN
    IF ~temp.ok THEN temp
    ELSE IF match[10] \notin DOMAIN KemetTerms THEN Raise("KeyError", <<>>)
    ELSE IF match[11] \notin DOMAIN KemetPackagings THEN Raise("KeyError", <<>>)
    ELSE Return(KemetDesign(
                  KemetSeries(match[3], match[9]) @@
                  [m |-> "Kemet",
                   mpn |-> reduce_concat(match),
                   type |-> match[1],
                   size |-> size_i_to_m[match[2]],
                   capVal |-> DecimalScale(DecimalFromStr(match[4]),
                                           KemetExponent(match[5])),
                   tol |-> KemetTols[match[6]],
                   voltage |-> KemetVoltages[match[7]],
                   temp |-> temp.val],
                  match[9]) @@
                [term |-> KemetTerms[match[10]],
                 pack |-> KemetPackagings[match[11]]])

(***************************************************************************)
(* The state.  The pipeline is the module-level code after the class       *)
(* definitions; the content of a source's file stands for the file.        *)
(***************************************************************************)
VARIABLES
    data_sources,   \* the list of DataSource: [parser, text]
    capacitors,     \* the result collection
    src,            \* number of sources the loop at line 593 has taken
    pc,             \* "main", "parse_data", "done", "raised" ("idle": not run)
    matches,        \* parse_data: the result of findall
    mi,             \* parse_data: index of the next match of the for loop
    items,          \* parse_data: the local list items
    stdout,         \* the values printed so far
    query,          \* a lookup in the unit tables or a classification
    answer,         \* its result
    tpc             \* "asked", "inch", "metric", "classified" ("idle": none)

vars == <<data_sources, capacitors, src, pc, matches, mi, items, stdout,
          query, answer, tpc>>

pipeline_vars == <<data_sources, capacitors, src, pc, matches, mi, items,
                   stdout>>

table_vars == <<query, answer, tpc>>

regex(parser) ==
    CASE parser = "TdkParser" -> TdkParser_regex
      [] parser = "SamsungParser" -> SamsungParser_regex
      [] parser = "KemetParser" -> KemetParser_regex

parse_match(parser, match) ==
    CASE parser = "TdkParser" -> TdkParser_parse_match(match)
      [] parser = "SamsungParser" -> SamsungParser_parse_match(match)
      [] parser = "KemetParser" -> KemetParser_parse_match(match)

\* item in items, with Capacitor.__eq__
Contains(list, item) == \E i \in 1..Len(list) : list[i].mpn = item.mpn

DataSource(parser, text) == [parser |-> parser, text |-> text]

(***************************************************************************)
(* The inputs.  SourcePool: catalogue texts with one or several MPNs, with *)
(* repeated MPNs and with MPNs that match the pattern and do not decode.   *)
(***************************************************************************)
SourcePool == {
    DataSource("TdkParser", "CGADN3X7R1E476M230LE"),
    DataSource("TdkParser",
               "CGA5L2X7R1H105K160AE CGADN3X7R1E476M230LE CGA5L2X7R1H105K160AE"),
    DataSource("TdkParser",
               "CGA5L2X7R1H105K160AE,CGA4J3X7R1E476M230AE,CGADN3X7R1E476M230LE"),
    DataSource("SamsungParser", "MLCC CL31B106KOHZFNE 10uF"),
    DataSource("SamsungParser", "CL31P106KOHZFNE CL31B106KOHZFNE"),
    DataSource("KemetParser", "C1206C106M4RACTU"),
    DataSource("KemetParser",
               "<td>C1206C106M4RACTU</td><td>C0805T104K5RAC7411</td>"),
    DataSource("KemetParser", "C0805T104K5RAC7411 C1206C106Z4JACTU C0603C104K4RAC") }

TdkBase ==
    <<"CGA", "D", "N", "3", "X7R", "1E", "47", "6", "M", "230", "L", "E">>

SamsungBase ==
    <<"CL", "31", "B", "10", "6", "K", "O", "H", "Z", "F", "N", "E">>

KemetBase == <<"C", "1206", "C", "10", "6", "M", "4", "R", "A", "C", "TU">>

Significands == {"47", "10", "00", "05"}

ThicknessCodes ==
    {"050", "060", "080", "085", "115", "125", "130", "160", "200", "230",
     "250", "231", "023"}

KemetSuffixes ==
    {KemetParser_regex[11].alts[i] : i \in 1..Len(KemetParser_regex[11].alts)}

\* single MPNs, each a base MPN with one or two field slots varied over
\* values the pattern admits, and a text with one MPN twice
DecodePool ==
    {DataSource("TdkParser",
                reduce_concat([TdkBase EXCEPT ![3] = t, ![10] = th])) :
        t \in CharsOf("BCEFHJKLMNP"), th \in ThicknessCodes}
    \cup
    {DataSource("TdkParser",
                reduce_concat([TdkBase EXCEPT ![7] = sg, ![8] = d])) :
        sg \in Significands, d \in Digits}
    \cup
    {DataSource("TdkParser",
                reduce_concat([TdkBase EXCEPT ![2] = sz, ![5] = tc])) :
        sz \in CharsOf("23456789D"), tc \in {"C0G", "X7R", "X7S", "X7T", "X8R"}}
    \cup
    {DataSource("TdkParser",
                reduce_concat([TdkBase EXCEPT ![6] = v, ![9] = tl])) :
        v \in DOMAIN TdkVoltages, tl \in {"J", "K", "M"}}
    \cup
    {DataSource("SamsungParser",
                reduce_concat([SamsungBase EXCEPT ![4] = sg, ![5] = d])) :
        sg \in Significands \cup {"1R"}, d \in Digits}
    \cup
    {DataSource("SamsungParser",
                reduce_concat([SamsungBase EXCEPT ![3] = tc, ![9] = ft])) :
        tc \in CharsOf("ABCFLPRSTUXY"), ft \in CharsOf("ANGZSY")}
    \cup
    {DataSource("KemetParser",
                reduce_concat([KemetBase EXCEPT ![4] = sg, ![5] = d])) :
        sg \in Significands \cup {"1R"}, d \in Digits}
    \cup
    {DataSource("KemetParser",
                reduce_concat([KemetBase EXCEPT ![3] = sr, ![9] = fr])) :
        sr \in CharsOf("CXFJSYTVW"), fr \in CharsOf("ABC12")}
    \cup
    {DataSource("KemetParser",
                reduce_concat([KemetBase EXCEPT ![8] = tc, ![11] = pk])) :
        tc \in {"R", "G"}, pk \in KemetSuffixes}
    \cup
    {DataSource("TdkParser", "CGADN3X7R1E476M230LE CGADN3X7R1E476M230LE")}

MetricCodes == DOMAIN size_m_to_i \cup {"1206", "0000"}

TempCodes ==
    {a \o b \o c : a \in CharsOf("XYZCNUP"), b \in CharsOf("4567890P2"),
                   c \in CharsOf("PRSTUVG0LJH")}

(***************************************************************************)
(* Initial states                                                          *)
(***************************************************************************)
TablesIdle ==
    /\ query = [kind |-> "none", code |-> ""]
    /\ answer = <<>>
    /\ tpc = "idle"

PipelineStart ==
    /\ capacitors = <<>>
    /\ src = 0
    /\ pc = "main"
    /\ matches = <<>>
    /\ mi = 1
    /\ items = <<>>
    /\ stdout = <<>>

Init ==
    /\ \E n \in 1..MaxSources : data_sources \in [1..n -> SourcePool]
    /\ PipelineStart
    /\ TablesIdle

InitDecode ==
    /\ \E s \in DecodePool : data_sources = <<s>>
    /\ PipelineStart
    /\ TablesIdle

InitTables ==
    /\ data_sources = <<>>
    /\ capacitors = <<>>
    /\ src = 0
    /\ pc = "idle"
    /\ matches = <<>>
    /\ mi = 1
    /\ items = <<>>
    /\ stdout = <<>>
    /\ \/ \E m \in MetricCodes : query = [kind |-> "size", code |-> m]
       \/ \E c \in TempCodes : query = [kind |-> "temp", code |-> c]
    /\ answer = <<>>
    /\ tpc = "asked"

(***************************************************************************)
(* The pipeline                                                            *)
(***************************************************************************)
\* for source in data_sources: source.parse_data(), up to the for loop
ParseData ==
    /\ pc = "main"
    /\ src < Len(data_sources)
    /\ src' = src + 1
    /\ matches' = findall(regex(data_sources[src + 1].parser),
                          data_sources[src + 1].text)
    /\ items' = <<>>
    /\ mi' = 1
    /\ pc' = "parse_data"
    /\ UNCHANGED <<data_sources, capacitors, stdout>>
    /\ UNCHANGED table_vars

\* one iteration of the for loop of parse_data whose parse_match returns
ParseMatch ==
    /\ pc = "parse_data"
    /\ mi <= Len(matches)
    /\ \E r \in {parse_match(data_sources[src].parser, matches[mi])} :
           /\ r.ok
           /\ items' = IF Contains(items, r.val) THEN items
                       ELSE Append(items, r.val)
    /\ mi' = mi + 1
    /\ UNCHANGED <<data_sources, capacitors, src, pc, matches, stdout>>
    /\ UNCHANGED table_vars

\* one iteration whose parse_match raises: nothing catches the exception,
\* it leaves parse_data and the module-level loop and ends the program
ParseMatchRaises ==
    /\ pc = "parse_data"
    /\ mi <= Len(matches)
    /\ \E r \in {parse_match(data_sources[src].parser, matches[mi])} :
           /\ ~r.ok
           /\ stdout' = stdout \o r.out
    /\ pc' = "raised"
    /\ UNCHANGED <<data_sources, capacitors, src, matches, mi, items>>
    /\ UNCHANGED table_vars

\* return items; capacitors += ...
ReturnItems ==
    /\ pc = "parse_data"
    /\ mi > Len(matches)
    /\ capacitors' = capacitors \o items
    /\ pc' = "main"
    /\ UNCHANGED <<data_sources, src, matches, mi, items, stdout>>
    /\ UNCHANGED table_vars

\* for cap in capacitors: print(cap); print(len(capacitors))
PrintCapacitors ==
    /\ pc = "main"
    /\ src = Len(data_sources)
    /\ stdout' = stdout
                 \o [i \in 1..Len(capacitors) |->
                       <<"str", "Capacitor: " \o capacitors[i].mpn>>]
                 \o << <<"int", Len(capacitors)>> >>
    /\ pc' = "done"
    /\ UNCHANGED <<data_sources, capacitors, src, matches, mi, items>>
    /\ UNCHANGED table_vars

Next ==
    \/ ParseData
    \/ ParseMatch
    \/ ParseMatchRaises
    \/ ReturnItems
    \/ PrintCapacitors

Spec == Init /\ [][Next]_vars

SpecDecode == InitDecode /\ [][Next]_vars

(***************************************************************************)
(* Lookups in the unit tables and classifications, one at a time           *)
(***************************************************************************)
Lookup(dict, key) ==
    IF key \in DOMAIN dict THEN Return(dict[key]) ELSE Raise("KeyError", <<>>)

\* size_m_to_i[code]
LookupInch ==
    /\ tpc = "asked"
    /\ query.kind = "size"
    /\ answer' = Lookup(size_m_to_i, query.code)
    /\ tpc' = "inch"
    /\ UNCHANGED query
    /\ UNCHANGED pipeline_vars

\* size_i_to_m[...] of the inch code just found
LookupMetric ==
    /\ tpc = "inch"
    /\ answer.ok
    /\ answer' = Lookup(size_i_to_m, answer.val)
    /\ tpc' = "metric"
    /\ UNCHANGED query
    /\ UNCHANGED pipeline_vars

\* TempChar(code)
Classify ==
    /\ tpc = "asked"
    /\ query.kind = "temp"
    /\ answer' = TempChar(query.code)
    /\ tpc' = "classified"
    /\ UNCHANGED query
    /\ UNCHANGED pipeline_vars

NextTables ==
    \/ LookupInch
    \/ LookupMetric
    \/ Classify

SpecTables == InitTables /\ [][NextTables]_vars

(***************************************************************************)
(* Properties                                                              *)
(***************************************************************************)
Finished == pc \in {"done", "raised"}

Dec(n) == DecimalFromInt(n)

\* n / 100 as a decimal fraction
Hundredths(n) == DecimalDiv10(DecimalFromInt(n), 2)

\* C1: when the program has printed the collection, no two records of the
\* final collection have the same raw MPN, whatever sources the records
\* came from.
C1_NoDuplicateMpn ==
    pc = "done" =>
        \A i, j \in 1..Len(capacitors) :
            capacitors[i].mpn = capacitors[j].mpn => i = j

\* C2: when the program has ended, every match of every source that can be
\* decoded has its record in the final collection, also when the decoding of
\* another match failed.
C2_FailureIsLocal ==
    Finished =>
        \A s \in 1..Len(data_sources) :
            LET ms == findall(regex(data_sources[s].parser),
                              data_sources[s].text)
            IN  \A k \in 1..Len(ms) :
                    LET r == parse_match(data_sources[s].parser, ms[k])
                    IN  r.ok => Contains(capacitors, r.val)

\* C3: a metric size code of the table, taken to its inch code and back
\* through the inverted table, comes back as itself.
C3_RoundTrip ==
    (tpc = "metric" /\ query.code \in DOMAIN size_m_to_i) =>
        answer.ok /\ answer.val = query.code

ExampleSource == DataSource("TdkParser", "CGADN3X7R1E476M230LE")

ExampleDecoded == data_sources = <<ExampleSource>> /\ src = 1 /\ pc # "parse_data"

\* what the example's record holds apart from its size
ExampleFields(c) ==
    /\ c.mpn = "CGADN3X7R1E476M230LE"
    /\ c.thickness = Hundredths(230)
    /\ c.thickness = [neg |-> FALSE, ip |-> 2, fp |-> <<3>>]
    /\ c.voltage = Dec(25)
    /\ c.capVal = [neg |-> FALSE, ip |-> 0, fp |-> <<0, 0, 0, 0, 4, 7>>]
    /\ DecimalScale(c.capVal, 12 - 6) = Dec(47)
    /\ c.tol = <<Dec(-20), Dec(20)>>
    /\ c.temp = [code |-> "X7R", ceramic_class |-> "2",
                 temp |-> <<Dec(-55), Dec(125)>>,
                 tol |-> <<Dec(-15), Dec(15)>>]

\* C4, as stated: decoding CGADN3X7R1E476M230LE with the TDK decoder gives
\* exactly one record, with the inch code of metric "3625" as its size.
C4_ExampleInchOf3625 ==
    ExampleDecoded =>
        /\ pc # "raised"
        /\ Len(capacitors) = 1
        /\ capacitors[1].size = size_m_to_i["3625"]
        /\ ExampleFields(capacitors[1])

\* C4, amended: decoding CGADN3X7R1E476M230LE with the TDK decoder gives
\* exactly one record whose size is the metric code of inch code "3025"
\* ("7563"), thickness 2.30 mm, 25 V, 47 x 10^(6-12) F, tolerance
\* [-20, 20] % and the temperature profile of "X7R".
C4_ExampleMetricOf3025 ==
    ExampleDecoded =>
        /\ pc # "raised"
        /\ Len(capacitors) = 1
        /\ capacitors[1].size = size_i_to_m["3025"]
        /\ capacitors[1].size = "7563"
        /\ size_m_to_i[capacitors[1].size] = "3025"
        /\ ExampleFields(capacitors[1])

C4_Witness ==
    /\ data_sources = <<ExampleSource>>
    /\ pc = "done"
    /\ Len(capacitors) = 1
    /\ capacitors[1].size = "7563"

\* the position of the significand and of the exponent digit in an MPN
SignificandOf(c) ==
    IF c.m = "TDK" THEN SubSeq(c.mpn, 12, 13)
    ELSE IF c.m = "Samsung" THEN SubSeq(c.mpn, 6, 7)
    ELSE SubSeq(c.mpn, 7, 8)

ExponentDigitOf(c) ==
    IF c.m = "TDK" THEN CharAt(c.mpn, 14)
    ELSE IF c.m = "Samsung" THEN CharAt(c.mpn, 8)
    ELSE CharAt(c.mpn, 9)

ClaimedExponent(c) ==
    IF c.m = "Kemet" /\ ExponentDigitOf(c) = "9" THEN -13
    ELSE IF c.m = "Kemet" /\ ExponentDigitOf(c) = "8" THEN -14
    ELSE DigitVal(ExponentDigitOf(c)) - 12

CapacitanceAsClaimed(c) ==
    /\ IsNumeric(SignificandOf(c))
    /\ c.capVal = DecimalScale(Dec(StrToNat(SignificandOf(c))),
                               ClaimedExponent(c))

\* C5: the capacitance of every record is significand x 10^(d-12), except
\* that Kemet records have exponent -13 for d = 9 and -14 for d = 8.
C5_Capacitance ==
    /\ \A i \in 1..Len(items) : CapacitanceAsClaimed(items[i])
    /\ \A i \in 1..Len(capacitors) : CapacitanceAsClaimed(capacitors[i])

C5_Witness ==
    /\ pc = "done"
    /\ Len(capacitors) = 1
    /\ capacitors[1].m = "Kemet"
    /\ SubSeq(capacitors[1].mpn, 7, 9) = "479"
    /\ capacitors[1].capVal
         = [neg |-> FALSE, ip |-> 0,
            fp |-> <<0, 0, 0, 0, 0, 0, 0, 0, 0, 0, 0, 4, 7>>]

Class2Alphabet0 == {"X", "Y", "Z"}

Class2Alphabet1 == {"4", "5", "6", "7", "8", "9"}

Class2Alphabet2 == {"P", "R", "S", "T", "U", "V"}

\* the codes that differ from code at most outside position p
SameCharAt(code, p) ==
    {q \in TempCodes : CharAt(q, p) = CharAt(code, p) /\ q \notin {"C0G", "NP0"}}

\* C6: a code that is not a Class-1 alias is classified, as Class "2",
\* exactly when its three characters are in their alphabets; the low bound
\* is a function of character 0, the high bound of character 1, the drift
\* band of character 2; otherwise the classification fails without a profile.
C6_Class2 ==
    (tpc = "classified" /\ query.code \notin {"C0G", "NP0"}) =>
        /\ answer.ok <=> /\ CharAt(query.code, 1) \in Class2Alphabet0
                         /\ CharAt(query.code, 2) \in Class2Alphabet1
                         /\ CharAt(query.code, 3) \in Class2Alphabet2
        /\ ~answer.ok => answer.val = <<>> /\ answer.err = "KeyError"
        /\ answer.ok =>
            /\ answer.val.ceramic_class = "2"
            /\ \A q \in SameCharAt(query.code, 1) :
                   TempChar(q).ok =>
                       TempChar(q).val.temp[1] = answer.val.temp[1]
            /\ \A q \in SameCharAt(query.code, 2) :
                   TempChar(q).ok =>
                       TempChar(q).val.temp[2] = answer.val.temp[2]
            /\ \A q \in SameCharAt(query.code, 3) :
                   TempChar(q).ok => TempChar(q).val.tol = answer.val.tol
            /\ query.code = "X7R" =>
                   /\ answer.val.temp = <<Dec(-55), Dec(125)>>
                   /\ answer.val.tol = <<Dec(-15), Dec(15)>>
            /\ CharAt(query.code, 3) = "T" =>
                   answer.val.tol = <<Dec(-33), Dec(22)>>

C6_Witness ==
    /\ tpc = "classified"
    /\ query.code = "Y5T"
    /\ answer.ok
    /\ answer.val.ceramic_class = "2"
    /\ answer.val.tol = <<Dec(-33), Dec(22)>>

\* C7: "C0G" and "NP0" are classified as Class "1" with the range
\* [-55, 125] and the drift tolerance exactly [-0.54, 0.54].
C7_Class1Exact ==
    (tpc = "classified" /\ query.code \in {"C0G", "NP0"}) =>
        /\ answer.ok
        /\ answer.val.ceramic_class = "1"
        /\ answer.val.temp = <<Dec(-55), Dec(125)>>
        /\ answer.val.tol = <<DecimalNeg(Hundredths(54)), Hundredths(54)>>

ThicknessLetterOf(c) == CharAt(c.mpn, 5)

ThicknessDigitsOf(c) == SubSeq(c.mpn, 16, 18)

ThicknessesAgree(c) ==
    c.m = "TDK" =>
        /\ c.thickness = TdkThicknesses[ThicknessLetterOf(c)]
        /\ DecimalScale(c.thickness, 2) = Dec(StrToNat(ThicknessDigitsOf(c)))

\* a TDK source of one MPN whose two thickness slots disagree
OneDisagreeingTdkMpn ==
    /\ Len(data_sources) = 1
    /\ data_sources[1].parser = "TdkParser"
    /\ Len(data_sources[1].text) = 20
    /\ DecimalScale(TdkThicknesses[CharAt(data_sources[1].text, 5)], 2)
         # Dec(StrToNat(SubSeq(data_sources[1].text, 16, 18)))

\* C8: the two thickness slots of every TDK record agree; an MPN whose
\* slots disagree ends the translation in an error, and no record of it is
\* produced or appended.
C8_ThicknessAgreement ==
    /\ \A i \in 1..Len(items) : ThicknessesAgree(items[i])
    /\ \A i \in 1..Len(capacitors) : ThicknessesAgree(capacitors[i])
    /\ OneDisagreeingTdkMpn =>
        /\ items = <<>> /\ capacitors = <<>>
        /\ pc \in {"main", "parse_data", "raised"}
        /\ pc = "main" => src = 0
        /\ pc = "parse_data" => mi = 1 /\ Len(matches) = 1

C8_Witness ==
    /\ OneDisagreeingTdkMpn
    /\ data_sources[1].text = "CGADJ3X7R1E476M230LE"
    /\ pc = "raised"
    /\ capacitors = <<>>

KemetStems == {"C1206C106M4RAC", "C1206C106M4GAC"}

\* C9: a Kemet MPN that ends with a key k of the packaging table is decoded
\* into a record with the whole MPN as its raw MPN and the table's entry of
\* k as its packaging.
C9_PackagingWhole ==
    \A st \in KemetStems : \A k \in DOMAIN KemetPackagings :
        (data_sources = <<DataSource("KemetParser", st \o k)>> /\ Finished) =>
            /\ pc = "done"
            /\ Len(capacitors) = 1
            /\ capacitors[1].mpn = st \o k
            /\ capacitors[1].pack = KemetPackagings[k]

DesignAsClaimed(c) ==
    c.m = "Kemet" =>
        LET sr == CharAt(c.mpn, 6)
            fr == CharAt(c.mpn, 13)
        IN  /\ "design" \in DOMAIN c <=> (sr = "T" /\ fr \in {"A", "B", "C"})
            /\ "design" \in DOMAIN c =>
                 c.design =
                   CASE fr = "A" -> "MIL-PRF-55681 PDA 8 %"
                     [] fr = "B" -> "MIL-PRF-556851 PDA 8 %, DPA EIA-469"
                     [] fr = "C" ->
                        "MIL-PRF-55681 PDA 8 %, DPA EIA-469, MIL-STD-202 103 A"

\* C10: a Kemet record carries a design note exactly when its series slot
\* is T and its failure-rate slot is A, B or C, and the letter selects the
\* note's text; no other combination, 1 and 2 included, gives a note.
C10_DesignNote ==
    /\ \A i \in 1..Len(items) : DesignAsClaimed(items[i])
    /\ \A i \in 1..Len(capacitors) : DesignAsClaimed(capacitors[i])

C10_Witness ==
    /\ pc = "done"
    /\ Len(capacitors) = 1
    /\ capacitors[1].m = "Kemet"
    /\ CharAt(capacitors[1].mpn, 6) = "T"
    /\ CharAt(capacitors[1].mpn, 13) = "B"
    /\ capacitors[1].design = "MIL-PRF-556851 PDA 8 %, DPA EIA-469"

\* the only source is one text that its decoder's pattern matches as a whole
OneFullMatch ==
    /\ Len(data_sources) = 1
    /\ src = 1
    /\ Len(matches) = 1
    /\ reduce_concat(matches[1]) = data_sources[1].text

\* C11: a text that fully matches the pattern of its decoder is always
\* translated into a record: the translation raises nothing and the run
\* ends with the record collected, unless the text is a TDK MPN whose two
\* thickness slots disagree.
C11_PatternResolvable ==
    (OneFullMatch /\ ~OneDisagreeingTdkMpn) =>
        /\ pc # "raised"
        /\ pc = "done" =>
             /\ Len(capacitors) = 1
             /\ capacitors[1].mpn = data_sources[1].text

====
